---- MODULE Spec2Model ----
(***************************************************************************)
(* Model of payloadSizeLimiter                                             *)
(* (pkg/services/object_manager/transformer/transformer.go): the streaming *)
(* writer that splits the payload of one object into a chain of            *)
(* size-bounded objects, each written to its own target.                   *)
(*                                                                         *)
(* Pointers are modelled as addresses: *object.RawObject is an index into  *)
(* the heap objs, an ObjectTarget is an index into sinks (0 is nil).       *)
(* Payload bytes are drawn from {0, 1}.                                    *)
(***************************************************************************)
EXTENDS Integers, Sequences, FiniteSets, TLC

\* ------------------------------------------------------------------ bounds
MaxMaxSize == 2
MaxWriteLen == 2
MaxWrites == 3

Bytes == {0, 1}
Max(a, b) == IF a > b THEN a ELSE b
\* target calls one call can make: WriteHeader, Close and Write per boundary
MaxTargetCalls == Max(3 * MaxWriteLen, 4)

\* ------------------------------------------------------- absent values
NoID == 0
NoSum == -1
NoHomoSum == <<0, 0, 0, 0>>
NoSize == -1
NoErr == <<>>

\* ---------------------------------------------------------- checksums
\* sha256.New(): a collision-free digest, as the bijective base-3 numeral
\* of the bytes absorbed so far.
ShaNew == 0
ShaWrite(h, p) == h * 3 + p + 1

RECURSIVE ShaWriteAll(_, _)
ShaWriteAll(h, data) ==
    IF data = <<>> THEN h
    ELSE ShaWriteAll(ShaWrite(h, Head(data)), Tail(data))

\* digest of a whole byte string
SHA256(data) == ShaWriteAll(ShaNew, data)

\* tz.New(): the Tillich-Zemor hash, a product of one 2x2 matrix per input
\* symbol, hence tz(a ++ b) = tz(a) * tz(b).  The generators are taken in
\* SL2(N), where they generate a free monoid.
TzNew == <<1, 0, 0, 1>>
TzGen(p) == IF p = 0 THEN <<1, 1, 0, 1>> ELSE <<1, 0, 1, 1>>
TzMul(x, y) == << x[1] * y[1] + x[2] * y[3], x[1] * y[2] + x[2] * y[4],
                  x[3] * y[1] + x[4] * y[3], x[3] * y[2] + x[4] * y[4] >>
TzWrite(h, p) == TzMul(h, TzGen(p))

RECURSIVE TzWriteAll(_, _)
TzWriteAll(h, data) ==
    IF data = <<>> THEN h
    ELSE TzWriteAll(TzWrite(h, Head(data)), Tail(data))

TZ(data) == TzWriteAll(TzNew, data)

\* []*payloadChecksumHasher: the pair {sha256, tz}; a nil slice is NoHashers
NoHashers == [sha |-> NoSum, tz |-> NoHomoSum]
NewHashers == [sha |-> ShaNew, tz |-> TzNew]
HashersWrite(h, data) ==
    IF h = NoHashers THEN h
    ELSE [sha |-> ShaWriteAll(h.sha, data), tz |-> TzWriteAll(h.tz, data)]

\* ------------------------------------------------------------- objects
Hdr == 1
\* object.NewRaw()
NewRaw == [attrs |-> 0, prev |-> NoID, parent |-> 0, children |-> <<>>,
           cs |-> NoSum, hh |-> NoHomoSum, size |-> NoSize, id |-> NoID]

\* a target fresh from the factory
NewSink == [hdr |-> 0, snap |-> NewRaw, hdrAt |-> 0, payload |-> <<>>,
            calls |-> <<>>, closed |-> FALSE, id |-> NoID]

\* One statement after another: F applied to the value of v.
Bind(v, F(_)) == CHOOSE r \in {F(x) : x \in {v}} : TRUE

\* -------------------------------------------------- the object targets
\* One call of a target's method.  s.failIn = n > 0 makes the n-th target
\* call from now return an error; a failed call sets s.fault.
\* events is the order of all factory and target calls, with their outcome.
Ticked(s) == [s EXCEPT !.failIn = IF @ > 1 THEN @ - 1 ELSE 0]
Logged(s, t, op) ==
    [s EXCEPT !.sinks[t].calls = Append(@, op),
              !.events = Append(@, [op |-> op, t |-> t, ok |-> s.failIn # 1])]
Faulted(s, t, op) == [Logged(s, t, op) EXCEPT !.failIn = 0, !.fault = TRUE]

\* ObjectTarget.WriteHeader(obj): the target receives the pointer a; snap
\* keeps the record as it was at the call
TargetWriteHeader(s, t, a) ==
    IF s.failIn = 1 THEN Faulted(s, t, "WriteHeader")
    ELSE [Ticked(Logged(s, t, "WriteHeader")) EXCEPT
             !.sinks[t].hdr = a, !.sinks[t].snap = s.objs[a],
             !.sinks[t].hdrAt = Len(s.sinks[t].payload)]

\* ObjectTarget.Write(p)
TargetWrite(s, t, data) ==
    IF s.failIn = 1 THEN Faulted(s, t, "Write")
    ELSE [Ticked(Logged(s, t, "Write")) EXCEPT !.sinks[t].payload = @ \o data]

\* the identifier the t-th target assigns to its object: identifiers are
\* unique, one per target
SelfID(t) == t

\* the identifier the t-th target computes for the parent of its object:
\* different from every target's own
ParentID(t) == 100 + t

\* The header belongs to the target once handed over.  A target whose
\* object has a parent without identifier may store one on that parent
\* (s.setsParent, the environment's choice); s.current.GetParent().GetID()
\* in initializeLinking reads it back.
TargetSetsParentID(s, t) ==
    IF s.setsParent /\ s.objs[s.sinks[t].hdr].parent # 0
    THEN [s EXCEPT !.objs[s.objs[s.sinks[t].hdr].parent].id =
                       IF @ = NoID THEN ParentID(t) ELSE @]
    ELSE s

\* ObjectTarget.Close(): returns the identifier assigned to the object
TargetClose(s, t) ==
    IF s.failIn = 1 THEN Faulted(s, t, "Close")
    ELSE [TargetSetsParentID(Ticked(Logged(s, t, "Close")), t) EXCEPT
             !.sinks[t].closed = TRUE, !.sinks[t].id = SelfID(t),
             !.ids = SelfID(t)]

\* a target that is still open is kept instead of asking the factory
targetInit_ReuseOpen(s) ==
    IF s.target # 0 /\ ~s.sinks[s.target].closed THEN s
    ELSE [s EXCEPT !.sinks = Append(@, NewSink), !.target = Len(s.sinks) + 1,
                   !.events = Append(@, [op |-> "targetInit",
                                         t |-> Len(s.sinks) + 1, ok |-> TRUE])]

\* s.targetInit()
targetInit(s) ==
    [s EXCEPT !.sinks = Append(@, NewSink), !.target = Len(s.sinks) + 1,
              !.events = Append(@, [op |-> "targetInit",
                                    t |-> Len(s.sinks) + 1, ok |-> TRUE])]

\* io.MultiWriter(ws...).Write(p): the target first, then the hashers; the
\* first error ends the write
chunkWriterWrite(s, data) ==
    Bind(TargetWrite(s, s.chunkWriter.target, data), LAMBDA r :
        IF r.fault THEN r
        ELSE [r EXCEPT
                !.currentHashers = HashersWrite(@, data),
                !.parentHashers = IF s.chunkWriter.par
                                  THEN HashersWrite(@, data) ELSE @])

\* ----------------------------------------------------- payloadSizeLimiter
\* fromObject(obj): a new record with the container, owner and attributes
\* of obj; the result is the address Len(objs) of the returned state
fromObject(s, a) ==
    [s EXCEPT !.objs = Append(@, [NewRaw EXCEPT !.attrs = s.objs[a].attrs])]

\* the header goes to the new target at once, before any payload
initializeCurrent_HeaderFirst(s) ==
    Bind(targetInit(s), LAMBDA t :
        Bind(TargetWriteHeader(t, t.target, t.current), LAMBDA h :
            [h EXCEPT !.currentHashers = NewHashers,
                      !.chunkWriter = [target |-> h.target,
                                       par |-> h.parentHashers # NoHashers]]))

\* the hashers of the previous object are kept instead of created anew
initializeCurrent_KeepHashers(s) ==
    Bind(targetInit(s), LAMBDA t :
        [t EXCEPT !.currentHashers = IF @ = NoHashers THEN NewHashers ELSE @,
                  !.chunkWriter = [target |-> t.target,
                                   par |-> t.parentHashers # NoHashers]])

\* initializeCurrent
initializeCurrent(s) ==
    Bind(targetInit(s), LAMBDA t :
        [t EXCEPT !.currentHashers = NewHashers,
                  !.chunkWriter = [target |-> t.target,
                                   par |-> t.parentHashers # NoHashers]])

\* s.previous[0]
LastPrevious_First(s) == s.previous[1]

\* s.previous[ln-1]
LastPrevious(s) == s.previous[Len(s.previous)]

\* initialize parent object once (after 1st object)
initializeParent(s) ==
    Bind(fromObject(s, s.current), LAMBDA f :
        [f EXCEPT !.parent = s.current,
                  !.parentHashers = s.currentHashers,
                  !.current = Len(f.objs)])

\* s.current.SetPreviousID(s.previous[ln-1])
SetPreviousID(s) == [s EXCEPT !.objs[s.current].prev = LastPrevious(s)]

\* initialize
initialize(s) ==
    IF Len(s.previous) > 0
    THEN Bind(IF Len(s.previous) = 1 THEN initializeParent(s) ELSE s, LAMBDA s1 :
             Bind(SetPreviousID(s1), LAMBDA s2 : initializeCurrent(s2)))
    ELSE initializeCurrent(s)

\* writeHashes(hashers): every checksumWriter closure stores into s.current
\* (the closures capture s, not the object that was current at creation)
writeHashes(s, hashers) ==
    IF hashers = NoHashers THEN s
    ELSE [s EXCEPT !.objs[s.current].cs = hashers.sha,
                   !.objs[s.current].hh = hashers.tz]

\* the children without the chunk released last
LinkingChildren_DropLast(s) == SubSeq(s.previous, 1, Len(s.previous) - 1)

\* s.current.SetChildren(s.previous...)
LinkingChildren(s) == s.previous

\* par.SetID(id) left out: the reference carries no identifier
initializeLinking_NoParentID(s) ==
    Bind([s EXCEPT !.objs = Append(@, NewRaw)], LAMBDA p :
        Bind(fromObject(p, p.current), LAMBDA f :
            [f EXCEPT !.current = Len(f.objs),
                      !.objs[Len(f.objs)].children = LinkingChildren(f),
                      !.objs[Len(f.objs)].parent = Len(p.objs)]))

\* initializeLinking: par is a new record that carries only the ID of the
\* parent of s.current
initializeLinking(s) ==
    Bind([s EXCEPT !.objs = Append(@, [NewRaw EXCEPT
                       !.id = s.objs[s.objs[s.current].parent].id])], LAMBDA p :
        Bind(fromObject(p, p.current), LAMBDA f :
            [f EXCEPT !.current = Len(f.objs),
                      !.objs[Len(f.objs)].children = LinkingChildren(f),
                      !.objs[Len(f.objs)].parent = Len(p.objs)]))

\* withParent := close && len(s.previous) > 1
WithParent_OffByOne(s, close) == close /\ Len(s.previous) > 1

\* withParent := close && len(s.previous) > 0
WithParent(s, close) == close /\ Len(s.previous) > 0

\* the ids of the nested release are returned
ReleaseIDs_Linking(ids, linkingIDs) == linkingIDs

\* what release(true) returns once the linking object is released: the ids
\* of the object released first (the result of the nested release is dropped)
ReleaseIDs(ids, linkingIDs) == ids

\* the error is passed on as it came
Wrap_NoContext(r, msg) == r

Wrap(r, msg) == [r EXCEPT !.err = <<msg>> \o @]

\* s.parent.SetPayloadSize(s.written) left out
finalizeParent_NoSize(s) ==
    Bind(writeHashes(s, s.parentHashers), LAMBDA h :
        [h EXCEPT !.objs[s.current].parent = s.parent])

\* the finalization of the parent in release: its checksums, its payload
\* size, and its attachment to the current object
finalizeParent(s) ==
    Bind(writeHashes(s, s.parentHashers), LAMBDA h :
        [h EXCEPT !.objs[s.parent].size = s.written,
                  !.objs[s.current].parent = s.parent])

RECURSIVE release(_, _)
release(s, close) ==
    IF s.target = 0 THEN [s EXCEPT !.panic = TRUE]
    ELSE
    Bind(IF WithParent(s, close) THEN finalizeParent(s) ELSE s, LAMBDA s1 :
    Bind(writeHashes(s1, s1.currentHashers), LAMBDA s2 :
    Bind(TargetWriteHeader(s2, s2.target, s2.current), LAMBDA r3 :
        IF r3.fault THEN Wrap(r3, "could not write header")
        ELSE
    Bind(TargetClose(r3, r3.target), LAMBDA r4 :
        IF r4.fault THEN Wrap(r4, "could not close target")
        ELSE
    Bind([r4 EXCEPT !.previous = Append(@, r4.ids)], LAMBDA s5 :
        IF WithParent(s, close)
        THEN Bind(initializeLinking(s5), LAMBDA s6 :
             Bind(initializeCurrent(s6), LAMBDA s7 :
             Bind(release(s7, FALSE), LAMBDA r8 :
                 IF r8.fault
                 THEN Wrap(r8, "could not release linking object")
                 ELSE [r8 EXCEPT !.ids = ReleaseIDs(r4.ids, r8.ids)])))
        ELSE s5)))))

\* s.written%s.maxSize == 0
AtBoundary(s) == (s.written % s.maxSize) = 0

\* leftToEdge = s.maxSize - s.written%s.maxSize
LeftToEdge(s) == s.maxSize - (s.written % s.maxSize)

\* cut = ln, or leftToEdge when ln > leftToEdge
Cut(ln, leftToEdge) == IF ln > leftToEdge THEN leftToEdge ELSE ln

\* chunk[:cut]
Prefix(chunk, cut) == SubSeq(chunk, 1, cut)

\* chunk[cut+1:]
Rest_SkipOne(chunk, cut) == SubSeq(chunk, cut + 2, Len(chunk))

\* chunk[cut:]
Rest(chunk, cut) == SubSeq(chunk, cut + 1, Len(chunk))

\* the first part of writeChunk: at a boundary the current object, if any,
\* is released and another one is initialized
openAtBoundary(s) ==
    IF AtBoundary(s)
    THEN IF s.written > 0
         THEN Bind(release(s, FALSE), LAMBDA r :
                  IF r.fault THEN Wrap(r, "could not release object")
                  ELSE initialize(r))
         ELSE initialize(s)
    ELSE s

\* the call is repeated also when the chunk ends exactly at the edge
MoreBytes_AtEdge(ln, leftToEdge) == ln >= leftToEdge

\* ln > leftToEdge: there are more bytes in the buffer
MoreBytes(ln, leftToEdge) == ln > leftToEdge

RECURSIVE writeChunk(_, _)
writeChunk(s0, chunk) ==
    IF s0.maxSize = 0 THEN [s0 EXCEPT !.steps = @ + 1, !.panic = TRUE]
    ELSE
    Bind(openAtBoundary([s0 EXCEPT !.steps = @ + 1]), LAMBDA s1 :
        IF s1.fault THEN s1
        ELSE
    Bind(Cut(Len(chunk), LeftToEdge(s1)), LAMBDA cut :
    Bind(chunkWriterWrite(s1, Prefix(chunk, cut)), LAMBDA r2 :
        IF r2.fault THEN Wrap(r2, "could not write chunk to target")
        ELSE
    Bind([r2 EXCEPT !.written = @ + cut], LAMBDA s3 :
        IF MoreBytes(Len(chunk), LeftToEdge(s1))
        THEN writeChunk(s3, Rest(chunk, cut))
        ELSE s3))))

\* ------------------------------------------------------------ the state
VARIABLES phase, maxSize, written, target, current, parent, currentHashers,
          parentHashers, previous, chunkWriter, objs, sinks, events, ret,
          pieces

vars == <<phase, maxSize, written, target, current, parent, currentHashers,
          parentHashers, previous, chunkWriter, objs, sinks, events, ret,
          pieces>>

NoRet == [op |-> "", len |-> 0, n |-> 0, err |-> NoErr, ids |-> NoID,
          steps |-> 0]

\* the limiter and its environment at the start of a call
Entry(failIn) ==
    [maxSize |-> maxSize, written |-> written, target |-> target,
     current |-> current, parent |-> parent,
     currentHashers |-> currentHashers, parentHashers |-> parentHashers,
     previous |-> previous, chunkWriter |-> chunkWriter, objs |-> objs,
     sinks |-> sinks, events |-> events, failIn |-> failIn,
     setsParent |-> FALSE, fault |-> FALSE,
     panic |-> FALSE, err |-> NoErr, ids |-> NoID, steps |-> 0]

Commit(r) ==
    /\ written' = r.written
    /\ target' = r.target
    /\ current' = r.current
    /\ parent' = r.parent
    /\ currentHashers' = r.currentHashers
    /\ parentHashers' = r.parentHashers
    /\ previous' = r.previous
    /\ chunkWriter' = r.chunkWriter
    /\ objs' = r.objs
    /\ sinks' = r.sinks
    /\ events' = r.events

\* NewPayloadSizeLimiter(maxSize, targetInit): every field but maxSize and
\* targetInit is zero; no object and no target exists yet
NewPayloadSizeLimiter(m) ==
    [maxSize |-> m, written |-> 0, target |-> 0, current |-> 0, parent |-> 0,
     currentHashers |-> NoHashers, parentHashers |-> NoHashers,
     previous |-> <<>>, chunkWriter |-> [target |-> 0, par |-> FALSE],
     objs |-> <<>>, sinks |-> <<>>, events |-> <<>>, failIn |-> 0,
     setsParent |-> FALSE, fault |-> FALSE,
     panic |-> FALSE, err |-> NoErr, ids |-> NoID, steps |-> 0]

Init ==
    \E m \in 0..MaxMaxSize :
        \E n \in {NewPayloadSizeLimiter(m)} :
            /\ phase = "new"
            /\ maxSize = n.maxSize
            /\ written = n.written
            /\ target = n.target
            /\ current = n.current
            /\ parent = n.parent
            /\ currentHashers = n.currentHashers
            /\ parentHashers = n.parentHashers
            /\ previous = n.previous
            /\ chunkWriter = n.chunkWriter
            /\ objs = n.objs
            /\ sinks = n.sinks
            /\ events = n.events
            /\ ret = NoRet
            /\ pieces = <<>>

\* WriteHeader(hdr): s.current = fromObject(hdr), hdr being the caller's
\* record
writeHeader(s) ==
    Bind([s EXCEPT !.objs = Append(@, [NewRaw EXCEPT !.attrs = Hdr])], LAMBDA h :
        Bind(fromObject(h, Len(h.objs)), LAMBDA f :
            [f EXCEPT !.current = Len(f.objs)]))

WriteHeader ==
    /\ phase = "new"
    /\ \E r \in {writeHeader(Entry(0))} : Commit(r)
    /\ phase' = "hdr"
    /\ ret' = [NoRet EXCEPT !.op = "WriteHeader"]
    /\ UNCHANGED <<maxSize, pieces>>

\* the count Write returns without the error check: len(p) in every case
WriteCount_Always(r, p) == Len(p)

\* the count Write returns: 0 with an error, len(p) otherwise
WriteCount(r, p) == IF r.fault \/ r.panic THEN 0 ELSE Len(p)

\* Write(p)
Write(p, failIn) ==
    /\ phase = "hdr"
    /\ Len(pieces) < MaxWrites
    /\ \E r \in {writeChunk(Entry(failIn), p)} :
           /\ Commit(r)
           /\ phase' = IF r.panic THEN "panic"
                       ELSE IF r.fault THEN "failed" ELSE "hdr"
           /\ ret' = [op |-> "Write", len |-> Len(p),
                      n |-> WriteCount(r, p),
                      err |-> r.err, ids |-> NoID, steps |-> r.steps]
           /\ pieces' = IF r.fault \/ r.panic THEN pieces ELSE Append(pieces, p)
    /\ UNCHANGED maxSize

\* Close()
Close(failIn, setsParent) ==
    /\ phase = "hdr"
    /\ \E r \in {release([Entry(failIn) EXCEPT !.setsParent = setsParent], TRUE)} :
           /\ Commit(r)
           /\ phase' = IF r.panic THEN "panic"
                       ELSE IF r.fault THEN "failed" ELSE "closed"
           /\ ret' = [op |-> "Close", len |-> 0, n |-> 0, err |-> r.err,
                      ids |-> IF r.fault \/ r.panic THEN NoID ELSE r.ids,
                      steps |-> 0]
    /\ UNCHANGED <<maxSize, pieces>>

Inputs == UNION {[1..n -> Bytes] : n \in 0..MaxWriteLen}

\* failIn = 0: no target call fails; failIn = n: the n-th target call of the
\* handler returns an error
DoWrite == \E p \in Inputs, failIn \in 0..MaxTargetCalls : Write(p, failIn)
DoClose == \E failIn \in 0..MaxTargetCalls, setsParent \in BOOLEAN :
               Close(failIn, setsParent)

Next == WriteHeader \/ DoWrite \/ DoClose

Spec == Init /\ [][Next]_vars

\* ------------------------------------------------------------- histories
RECURSIVE Concat(_)
Concat(ss) == IF ss = <<>> THEN <<>> ELSE Head(ss) \o Concat(Tail(ss))

\* the bytes accepted by the successful Write calls so far
Payload == Concat(pieces)

TypeOK ==
    /\ phase \in {"new", "hdr", "closed", "failed", "panic"}
    /\ maxSize \in 0..MaxMaxSize
    /\ Len(pieces) <= MaxWrites

\* ------------------------------------------------------- what was emitted
SinkIdx == [k \in 1..Len(sinks) |-> k]

\* the k-th target was handed a header
Headed(k) == sinks[k].hdr # 0

\* the k-th target was handed the linking object
IsLinking(k) == Headed(k) /\ sinks[k].snap.children # <<>>

\* the targets that were handed a chunk, in emission order
Chunks == SelectSeq(SinkIdx, LAMBDA k : Headed(k) /\ ~IsLinking(k))
NumChunks == Len(Chunks)

\* the targets that are not the linking object's (the chunks handed over,
\* the chunk still open, and targets left without a header)
ChunkSinks == SelectSeq(SinkIdx, LAMBDA k : ~IsLinking(k))

LinkingEmitted == \E k \in 1..Len(sinks) : IsLinking(k)

RECURSIVE PayloadOf(_)
PayloadOf(ks) ==
    IF ks = <<>> THEN <<>> ELSE sinks[Head(ks)].payload \o PayloadOf(Tail(ks))

RECURSIVE SizeOf(_)
SizeOf(ks) ==
    IF ks = <<>> THEN 0 ELSE Len(sinks[Head(ks)].payload) + SizeOf(Tail(ks))

CeilDiv(l, m) == (l + m - 1) \div m
ExpectedChunks(l, m) == IF l = 0 THEN 1 ELSE CeilDiv(l, m)

\* WriteHeader, the Write calls and Close were made and no target failed
Completed == phase = "closed"

C2_ChunkSizes ==
    (maxSize > 0 /\ Completed)
        => \A i \in 1..NumChunks :
              LET size == Len(sinks[Chunks[i]].payload)
              IN  /\ size <= maxSize
                  /\ i < NumChunks => size = maxSize
                  /\ i = NumChunks
                       => size = Len(Payload) - maxSize * (NumChunks - 1)

\* C3: when more than one chunk is produced, the parent record attached to
\* the last chunk carries the standard and the homomorphic checksum of the
\* concatenation of all chunk payloads.
C3_ParentChecksums ==
    (Completed /\ NumChunks > 1)
        => LET par == sinks[Chunks[NumChunks]].snap.parent
           IN  /\ par # 0
               /\ objs[par].cs = SHA256(PayloadOf(Chunks))
               /\ objs[par].hh = TZ(PayloadOf(Chunks))

\* the target that was handed the linking object (0 when there is none)
LinkingSink ==
    IF LinkingEmitted THEN CHOOSE k \in 1..Len(sinks) : IsLinking(k) ELSE 0

\* the identifiers the targets assigned to the chunks, in emission order
ChunkIDs == [i \in 1..NumChunks |-> sinks[Chunks[i]].id]

\* C4 as stated: a successful Close returns the identifier assigned to the
\* linking object when one was emitted, and otherwise the single chunk's.
C4_CloseReturnsLinkingID ==
    Completed
        => ret.ids = IF LinkingEmitted THEN sinks[LinkingSink].id
                     ELSE sinks[Chunks[1]].id

\* C4 (amended): a successful Close returns the identifier the target
\* assigned to the last chunk, whether or not a linking object was emitted;
\* with a single chunk that is the single chunk's identifier.
C4_CloseReturnsLastChunkID ==
    Completed => /\ NumChunks >= 1
                 /\ ret.ids = sinks[Chunks[NumChunks]].id
                 /\ ret.ids # NoID

C4_Witness ==
    /\ Completed
    /\ LinkingEmitted
    /\ sinks[LinkingSink].closed
    /\ ret.ids = sinks[Chunks[NumChunks]].id
    /\ ret.ids # sinks[LinkingSink].id

\* C5: the children list of an emitted linking object equals, in order, the
\* identifiers returned by the targets of all chunks, the last included, and
\* holds nothing else.
C5_LinkingChildren ==
    \A k \in 1..Len(sinks) :
        IsLinking(k) => sinks[k].snap.children = ChunkIDs

C5_Witness ==
    /\ Completed
    /\ LinkingEmitted
    /\ NumChunks >= 3
    /\ sinks[LinkingSink].snap.children = ChunkIDs

\* the parent record was finalized by Close (its payload size is set)
ParentFinalized == parent # 0 /\ objs[parent].size # NoSize

\* C6: for every completed stream a parent is finalized and a linking object
\* is handed to a target iff more than one chunk was produced; with exactly
\* one chunk no object carries a parent reference or a children list.
C6_ParentAndLinkingIffSplit ==
    Completed
        => /\ ParentFinalized <=> NumChunks > 1
           /\ LinkingEmitted <=> NumChunks > 1
           /\ NumChunks = 1
                => \A a \in 1..Len(objs) :
                       objs[a].parent = 0 /\ objs[a].children = <<>>

C6_Witness ==
    /\ Completed
    /\ NumChunks = 2
    /\ ParentFinalized
    /\ LinkingEmitted

\* C7: in every reachable state the headers handed to the chunks' targets
\* form a chain: the first has no previous reference, and the i-th has the
\* identifier returned by the target of chunk i - 1.
C7_PreviousChain ==
    \A i \in 1..NumChunks :
        sinks[Chunks[i]].snap.prev =
            IF i = 1 THEN NoID ELSE sinks[Chunks[i - 1]].id

C7_Witness ==
    /\ NumChunks >= 3
    /\ sinks[Chunks[3]].snap.prev = sinks[Chunks[2]].id
    /\ sinks[Chunks[2]].snap.prev = sinks[Chunks[1]].id

\* the chunks a sequence of targets was handed, in emission order: the bytes
\* each received and the checksums in the header it was handed
Emitted(ss) ==
    LET cs == SelectSeq(ss, LAMBDA x : x.hdr # 0 /\ x.snap.children = <<>>)
    IN  [k \in 1..Len(cs) |->
            [payload |-> cs[k].payload, size |-> Len(cs[k].payload),
             cs |-> cs[k].snap.cs, hh |-> cs[k].snap.hh]]

\* the same payload written by one Write call of length L to a fresh
\* limiter with the same maximum size, and then closed
OneWrite == writeChunk(writeHeader(NewPayloadSizeLimiter(maxSize)), Payload)
OneWriteClosed == release(OneWrite, TRUE)

\* every Write call so far carried at least one byte
Partitioned == pieces # <<>> /\ \A i \in 1..Len(pieces) : pieces[i] # <<>>

\* C8: for a fixed payload and M > 0, any two ways of cutting the payload
\* into successive Write calls produce the same number of chunks, the same
\* bytes and sizes per chunk and the same checksums per chunk; stated
\* against the way that makes one call of length L.
C8_GranularityIndependent ==
    (maxSize > 0 /\ Completed /\ pieces # <<>>)
        => Emitted(sinks) = Emitted(OneWriteClosed.sinks)

\* the same comparison for the streams in which every Write call carries
\* at least one byte, before and after Close
GranularityIndependentNonEmpty ==
    (maxSize > 0 /\ Partitioned)
        => /\ phase = "hdr" => Emitted(sinks) = Emitted(OneWrite.sinks)
           /\ Completed => Emitted(sinks) = Emitted(OneWriteClosed.sinks)

\* C9: after any sequence of successful Write calls the bytes delivered to
\* the chunks' targets add up to the number of bytes passed to Write and to
\* the byte counter, and their concatenation in emission order is the
\* concatenation of the written inputs.
C9_PayloadConserved ==
    phase \in {"hdr", "closed"}
        => /\ SizeOf(ChunkSinks) = Len(Payload)
           /\ written = Len(Payload)
           /\ PayloadOf(ChunkSinks) = Payload

C9_Witness ==
    /\ phase = "hdr"
    /\ Len(pieces) >= 2
    /\ Len(ChunkSinks) >= 2
    /\ written > maxSize
    /\ PayloadOf(ChunkSinks) = Payload
    /\ \E i, j \in 1..Len(Payload) : Payload[i] # Payload[j]

\* the factory calls made so far: every target comes from the factory
FactoryCalls == Len(sinks)

\* Write calls after the first that found the byte counter still at 0
RECURSIVE ZeroWrites(_)
ZeroWrites(ps) ==
    IF Len(ps) <= 1 THEN 0
    ELSE LET front == SubSeq(ps, 1, Len(ps) - 1)
         IN  ZeroWrites(front) + (IF Concat(front) = <<>> THEN 1 ELSE 0)

\* C10 as stated: over a complete stream the factory is invoked once per
\* chunk, once for the parent and once for the linking object: k + 2 times
\* for k > 1 chunks and once for a single chunk.
C10_FactoryPerObject ==
    Completed
        => FactoryCalls = IF NumChunks > 1 THEN NumChunks + 2 ELSE 1

\* C10 (amended): over a complete stream the factory is invoked once per
\* chunk and once for the linking object, never for the parent, and once
\* more by every Write call after the first that finds the byte counter at
\* 0 (its target replaces one that got no header).  With z such calls, k > 1
\* chunks take k + 1 + z invocations and a single chunk takes 1 + z.
C10_FactoryPerEmittedObject ==
    Completed
        => FactoryCalls = (IF NumChunks > 1 THEN NumChunks + 1 ELSE 1)
                              + ZeroWrites(pieces)

C10_Witness ==
    /\ Completed
    /\ NumChunks = 3
    /\ LinkingEmitted
    /\ ZeroWrites(pieces) = 0
    /\ FactoryCalls = 4


\* the calls of one method the k-th target received
CallsOf(k, op) == Len(SelectSeq(sinks[k].calls, LAMBDA c : c = op))

\* C11 as stated: the splitter calls a target's WriteHeader at most once and
\* only before it has written any payload bytes to that target.
C11_HeaderBeforePayload ==
    \A k \in 1..Len(sinks) :
        /\ CallsOf(k, "WriteHeader") <= 1
        /\ Headed(k) => sinks[k].hdrAt = 0

\* C11 (amended): the splitter calls a target's WriteHeader at most once and
\* only after every Write it makes to that target: all Write calls precede
\* the WriteHeader, and nothing but Close follows it.
C11_HeaderAfterPayload ==
    \A k \in 1..Len(sinks) :
        /\ CallsOf(k, "WriteHeader") <= 1
        /\ \A i \in 1..Len(sinks[k].calls) :
               sinks[k].calls[i] = "WriteHeader"
                   => /\ \A j \in 1..(i - 1) : sinks[k].calls[j] = "Write"
                      /\ \A j \in (i + 1)..Len(sinks[k].calls) :
                             sinks[k].calls[j] = "Close"
        /\ Headed(k) => sinks[k].hdrAt = Len(sinks[k].payload)

C11_Witness ==
    \E k \in 1..Len(sinks) :
        /\ sinks[k].calls = <<"Write", "Write", "WriteHeader", "Close">>
        /\ sinks[k].hdrAt = 2
        /\ sinks[k].closed


\* C12: a splitter constructed with a maximum chunk size of 0 is rejected at
\* construction, so neither WriteHeader nor a later Write ever executes with
\* maxSize = 0.
C12_ZeroSizeRejected ==
    maxSize <= 0 => phase = "new" /\ ret.op # "Write"

\* the Write the constructor should have made impossible
C12_ZeroSizeWrite == maxSize = 0 /\ ret.op = "Write" /\ phase = "panic"


\* a factory or target call that returned an error
FailedCalls == {i \in 1..Len(events) : ~events[i].ok}

\* C13: when a target's WriteHeader, Write or Close fails during Write or
\* Close, the call returns an error at once: the failed call is the last
\* call made to any target or to the factory, and Write reports 0 bytes.
C13_FailStop ==
    /\ \A i \in FailedCalls : i = Len(events)
    /\ phase = "failed" <=> FailedCalls # {}
    /\ phase = "failed" =>
           /\ ret.err # NoErr
           /\ ret.op \in {"Write", "Close"}
           /\ ret.op = "Write" => ret.n = 0

C13_Witness ==
    /\ phase = "failed"
    /\ ret.op = "Write"
    /\ ret.len = 2
    /\ ret.n = 0
    /\ \E k \in 1..Len(sinks) : sinks[k].closed
    /\ events[Len(events)].op = "Write"
    /\ ~events[Len(events)].ok


\* the record the linking object's header names as its parent
LinkingParentRef == sinks[LinkingSink].snap.parent

\* the target of the last chunk handed over
LastChunk == Chunks[NumChunks]

\* C14 as stated: when a linking object is emitted, its parent reference is
\* the identifier returned by a target through which the parent itself was
\* flushed (WriteHeader then Close on its own target) before the linking
\* object was built.
C14_ParentFlushedFirst ==
    LinkingEmitted
        => \E k \in 1..(LinkingSink - 1) :
               /\ sinks[k].hdr = parent
               /\ sinks[k].closed
               /\ objs[LinkingParentRef].id = sinks[k].id

\* C14 (amended): when a linking object is emitted, its parent reference is
\* a fresh record that carries nothing but the identifier found on the
\* parent attached to the last chunk once that chunk's target was closed
\* (the one that target stored there, or none); the parent is never flushed
\* through a target of its own, and the reference record never reaches one.
C14_ParentRefFromLastChunk ==
    LinkingEmitted
        => /\ LinkingParentRef # 0
           /\ LinkingParentRef # parent
           /\ sinks[LastChunk].snap.parent = parent
           /\ sinks[LastChunk].closed
           /\ objs[LinkingParentRef] = [NewRaw EXCEPT !.id = objs[parent].id]
           /\ objs[LinkingParentRef].id \in {NoID, ParentID(LastChunk)}
           /\ \A k \in 1..Len(sinks) :
                  /\ sinks[k].hdr # LinkingParentRef
                  /\ sinks[k].hdr = parent => k = Chunks[1]

C14_Witness ==
    /\ Completed
    /\ LinkingEmitted
    /\ objs[LinkingParentRef].id = ParentID(LastChunk)
    /\ sinks[LinkingSink].closed


\* the record of the k-th target's header changed since WriteHeader in a
\* field the splitter writes
Modified(k) ==
    \/ objs[sinks[k].hdr].prev # sinks[k].snap.prev
    \/ objs[sinks[k].hdr].cs # sinks[k].snap.cs
    \/ objs[sinks[k].hdr].hh # sinks[k].snap.hh
    \/ objs[sinks[k].hdr].size # sinks[k].snap.size
    \/ objs[sinks[k].hdr].parent # sinks[k].snap.parent
    \/ objs[sinks[k].hdr].children # sinks[k].snap.children

\* C15: once a chunk's record was passed to its target's WriteHeader the
\* splitter never modifies it again (previous reference, checksums, payload
\* size, parent); every later chunk and the parent use a distinct record.
C15_RecordFrozen ==
    \A k \in 1..Len(sinks) :
        Headed(k) /\ ~IsLinking(k)
            => /\ ~Modified(k)
               /\ sinks[k].hdr # parent
               /\ \A j \in 1..Len(sinks) :
                      (Headed(j) /\ j # k) => sinks[j].hdr # sinks[k].hdr

\* C16: for every chunk the checksum and the homomorphic checksum in the
\* header passed to its target are those of exactly the payload bytes that
\* target received, the last chunk finalized by Close with a parent included.
C16_ChunkChecksums ==
    \A i \in 1..NumChunks :
        /\ sinks[Chunks[i]].snap.cs = SHA256(sinks[Chunks[i]].payload)
        /\ sinks[Chunks[i]].snap.hh = TZ(sinks[Chunks[i]].payload)

C16_Witness ==
    /\ Completed
    /\ NumChunks >= 2
    /\ ParentFinalized
    /\ sinks[LastChunk].payload # <<>>
    /\ sinks[LastChunk].snap.parent = parent
    /\ sinks[LastChunk].snap.cs = SHA256(sinks[LastChunk].payload)
    /\ sinks[LastChunk].snap.cs # SHA256(Payload)
    /\ sinks[LastChunk].snap.hh # TZ(Payload)


\* the operation an error names, read from its outermost context
ErrContext(err) ==
    IF err = NoErr THEN "none"
    ELSE IF Head(err) = "could not release object" THEN "finalize in Write"
    ELSE IF Head(err) = "could not write chunk to target" THEN "chunk write"
    ELSE IF Head(err) = "could not release linking object" THEN "linking"
    ELSE IF Head(err) \in {"could not write header", "could not close target"}
    THEN "finalize in Close"
    ELSE "unknown"

\* the operation during which the failed target call was made
FailedOperation ==
    IF FailedCalls = {} THEN "none"
    ELSE IF ret.op = "Write"
         THEN IF events[Len(events)].op = "Write" THEN "chunk write"
              ELSE "finalize in Write"
         ELSE IF objs[current].children # <<>> THEN "linking"
              ELSE "finalize in Close"

\* C17: the error of a failed Write or Close names the failed operation:
\* finalizing a chunk during Write, writing chunk bytes, finalizing the last
\* chunk in Close and emitting the linking object have distinct contexts; a
\* Close that failed on the linking object left every chunk committed, one
\* that failed on the last chunk left that chunk open.
C17_ErrorNamesOperation ==
    /\ ErrContext(ret.err) = FailedOperation
    /\ ErrContext(ret.err) # "unknown"
    /\ ErrContext(ret.err) = "linking"
           => /\ \A i \in 1..NumChunks : sinks[Chunks[i]].closed
              /\ PayloadOf(Chunks) = Payload
    /\ ErrContext(ret.err) = "finalize in Close"
           => /\ ~sinks[target].closed
              /\ ~LinkingEmitted

C17_Witness ==
    /\ phase = "failed"
    /\ ret.op = "Close"
    /\ ret.err = <<"could not release linking object", "could not close target">>
    /\ NumChunks = 2
    /\ \A i \in 1..NumChunks : sinks[Chunks[i]].closed


\* the targets obtained from the factory and not closed
OpenSinks == {k \in 1..Len(sinks) : ~sinks[k].closed}

\* C18: after WriteHeader and any Write calls (zero-length ones included) at
\* most one target is open at any time, and after a successful Close every
\* target obtained from the factory received exactly one WriteHeader and
\* exactly one Close.
C18_OneOpenSink ==
    /\ Cardinality(OpenSinks) <= 1
    /\ Completed
           => \A k \in 1..Len(sinks) :
                  /\ CallsOf(k, "WriteHeader") = 1
                  /\ CallsOf(k, "Close") = 1

\* a target left open for good: a second one was obtained before its Close
C18_AbandonedSink ==
    /\ Completed
    /\ \E k \in OpenSinks : sinks[k].calls = <<"Write">>


\* the writeChunk invocations a Write of ln bytes needs when the counter is
\* at w: one up to the edge of the current object, one per object after it
StepsNeeded(w, ln, m) ==
    IF ln <= m - (w % m) THEN 1
    ELSE 1 + CeilDiv(ln - (m - (w % m)), m)

\* C19: for every M >= 1 a Write whose targets do not fail terminates: every
\* repeated writeChunk step works on a non-empty remainder and consumes at
\* least one byte, so a Write of len bytes takes at most ceil(len / M) + 1
\* steps, M = 1 included, and all its bytes are consumed.
C19_WriteTerminates ==
    (ret.op = "Write" /\ phase = "hdr")
        => /\ maxSize >= 1
           /\ ret.n = ret.len
           /\ written = Len(Payload)
           /\ ret.steps = StepsNeeded(written - ret.len, ret.len, maxSize)
           /\ ret.steps >= 1
           /\ ret.steps <= CeilDiv(ret.len, maxSize) + 1
           /\ ret.steps <= Max(1, ret.len)

C19_Witness ==
    /\ ret.op = "Write"
    /\ phase = "hdr"
    /\ maxSize = 1
    /\ ret.len = 2
    /\ ret.steps = 2
    /\ written > ret.len

\* the bound ceil(len / M) + 1 is met: a Write that starts inside an object
C19_BoundMet ==
    /\ ret.op = "Write"
    /\ phase = "hdr"
    /\ ret.len > 0
    /\ ret.steps = CeilDiv(ret.len, maxSize) + 1


\* C20: when Close finalizes a split stream the payload size recorded on the
\* parent is the number of bytes written to the splitter since WriteHeader,
\* and of the chunk headers passed to targets only the last one carries the
\* parent reference.
C20_ParentSizeAndLastChunkRef ==
    /\ (ret.op = "Close" /\ phase \in {"closed", "failed"} /\ parent # 0)
           => /\ objs[parent].size = Len(Payload)
              /\ written = Len(Payload)
    /\ \A i \in 1..NumChunks :
           sinks[Chunks[i]].snap.parent # 0
               => /\ ret.op = "Close"
                  /\ i = NumChunks
                  /\ sinks[Chunks[i]].snap.parent = parent
    /\ Completed
           => /\ parent # 0 <=> NumChunks > 1
              /\ NumChunks > 1 => sinks[LastChunk].snap.parent = parent

C20_Witness ==
    /\ Completed
    /\ NumChunks = 3
    /\ objs[parent].size = 3
    /\ Len(Payload) = 3
    /\ sinks[Chunks[3]].snap.parent = parent
    /\ sinks[Chunks[2]].snap.parent = 0
    /\ sinks[Chunks[1]].snap.parent = 0

====
